---------------------------- MODULE Spec2Model ----------------------------
(***************************************************************************)
(* TraeCheck: a GitHub Action (the Invoker, action.ts) that asks an MCP    *)
(* server (the Analyzer, mcp-server.ts) to analyse a pull request and      *)
(* posts the result back to the pull request.                              *)
(*                                                                         *)
(* The repository holds three builds of the Invoker and three of the       *)
(* Analyzer:                                                               *)
(*   Invoker   "ts"    src/src/action.ts      (heuristic, MCP client)      *)
(*             "ai"    src/unnamed/part_000   (AI, MCP client)             *)
(*             "dist"  src/dist/action.js     (first build, no MCP)        *)
(*   Analyzer  "ai"    src/src/mcp-server.ts  (Gemini, try/catch)          *)
(*             "heur"  src/unnamed/part_001   (four heuristic rules)       *)
(*             "stub"  src/dist/mcp-server.js (placeholder)                *)
(*                                                                         *)
(* Strings.  A short string (an environment value, a path, a response      *)
(* text) is a sequence of one-character strings, "Chars".  A text that is  *)
(* put together from pieces (a summary, a review body, the PR context, a   *)
(* patch) is a "Rope": a sequence of runs [ch, n], n copies of the text    *)
(* ch.  A patch is a rope of one-character runs, so that a patch of 5000   *)
(* characters is a few runs long and substring(0, 5000) is computed on it. *)
(***************************************************************************)
EXTENDS Integers, Sequences, FiniteSets, TLC

(***************************************************************************)
(* Bounds of the model.                                                    *)
(***************************************************************************)
\* longest PR_NUMBER string enumerated over PrAlphabet
MaxPrLen == 2
\* longest changed-file list the hosting platform returns
MaxFiles == 2
\* longest tail a patch of PatchLimit - 1 characters is extended by
MaxTail == 2
\* the most lines a response of the generative backend has
MaxLines == 4

(***************************************************************************)
(* Strings                                                                 *)
(***************************************************************************)
Run(c, k) == [ch |-> c, n |-> k]

\* a literal of the source, kept whole
Lit(s) == <<Run(s, 1)>>

\* a Chars value as a rope
R(chars) == [i \in 1..Len(chars) |-> Run(chars[i], 1)]

RECURSIVE RopeLen(_)
\* String.prototype.length of a rope
RopeLen(r) ==
  IF r = <<>> THEN 0 ELSE Len(Head(r).ch) * Head(r).n + RopeLen(Tail(r))

RECURSIVE Norm(_)
\* the same text with empty runs dropped and equal neighbours merged
Norm(r) ==
  IF r = <<>> THEN <<>>
  ELSE IF Head(r).n = 0 THEN Norm(Tail(r))
  ELSE LET t == Norm(Tail(r)) IN
       IF t # <<>> /\ Head(t).ch = Head(r).ch
       THEN <<Run(Head(r).ch, Head(r).n + Head(t).n)>> \o Tail(t)
       ELSE <<Head(r)>> \o t

RECURSIVE Substring0(_, _)
\* String.prototype.substring(0, k) of a rope of one-character runs
Substring0(r, k) ==
  IF r = <<>> \/ k <= 0 THEN <<>>
  ELSE IF Head(r).n >= k THEN <<Run(Head(r).ch, k)>>
  ELSE <<Head(r)>> \o Substring0(Tail(r), k - Head(r).n)

RECURSIVE CharAt(_, _)
\* the i-th character (from 1) of a rope of one-character runs, "" past its end
CharAt(r, i) ==
  IF r = <<>> THEN ""
  ELSE IF i <= Head(r).n THEN Head(r).ch
  ELSE CharAt(Tail(r), i - Head(r).n)

LowerChar(c) ==
  CASE c = "A" -> "a" [] c = "B" -> "b" [] c = "C" -> "c" [] c = "D" -> "d" [] c = "E" -> "e"
    [] c = "F" -> "f" [] c = "G" -> "g" [] c = "H" -> "h" [] c = "I" -> "i" [] c = "J" -> "j"
    [] c = "K" -> "k" [] c = "L" -> "l" [] c = "M" -> "m" [] c = "N" -> "n" [] c = "O" -> "o"
    [] c = "P" -> "p" [] c = "Q" -> "q" [] c = "R" -> "r" [] c = "S" -> "s" [] c = "T" -> "t"
    [] c = "U" -> "u" [] c = "V" -> "v" [] c = "W" -> "w" [] c = "X" -> "x" [] c = "Y" -> "y"
    [] c = "Z" -> "z"
    [] OTHER -> c

\* String.prototype.toLowerCase (ASCII letters)
ToLowerCase(s) == [i \in 1..Len(s) |-> LowerChar(s[i])]

\* String.prototype.includes
Includes(s, needle) ==
  \E k \in 0..(Len(s) - Len(needle)) :
     \A j \in 1..Len(needle) : s[k + j] = needle[j]

RECURSIVE Split(_, _)
\* String.prototype.split(sep), sep one character
Split(s, sep) ==
  IF \A i \in 1..Len(s) : s[i] # sep THEN <<s>>
  ELSE LET k == CHOOSE i \in 1..Len(s) :
                   s[i] = sep /\ \A j \in 1..(i - 1) : s[j] # sep
       IN <<SubSeq(s, 1, k - 1)>> \o Split(SubSeq(s, k + 1, Len(s)), sep)

DigitChar(d) ==
  CASE d = 0 -> "0" [] d = 1 -> "1" [] d = 2 -> "2" [] d = 3 -> "3"
    [] d = 4 -> "4" [] d = 5 -> "5" [] d = 6 -> "6" [] d = 7 -> "7"
    [] d = 8 -> "8" [] OTHER -> "9"

RECURSIVE NatToChars(_)
\* a natural number in a template literal: its decimal digits
NatToChars(k) ==
  IF k < 10 THEN <<DigitChar(k)>> ELSE NatToChars(k \div 10) \o <<DigitChar(k % 10)>>

\* all sequences over S of length at most k
SeqsUpTo(S, k) == UNION {[1..m -> S] : m \in 0..k}

(***************************************************************************)
(* JavaScript values read from process.env: undefined, or a string.        *)
(***************************************************************************)
Undefined == [set |-> FALSE, val |-> <<>>]
Str(chars) == [set |-> TRUE, val |-> chars]

\* ToBoolean: undefined and "" are falsy
Truthy(v) == v.set /\ v.val # <<>>

\* a || b
OrElse(a, b) == IF Truthy(a) THEN a ELSE b

(***************************************************************************)
(* Number(string), for strings over PrAlphabet: white space is trimmed,    *)
(* the empty string is 0, then [+-] digits [. digits] or [+-] . digits;    *)
(* anything else is NaN.  The value is kept exactly: its sign, its         *)
(* integer part and whether a non-zero fraction digit follows.             *)
(***************************************************************************)
IsDigit(c) == c \in {"0", "1", "2", "3", "4", "5", "6", "7", "8", "9"}

DigitVal(c) ==
  CASE c = "0" -> 0 [] c = "1" -> 1 [] c = "2" -> 2 [] c = "3" -> 3
    [] c = "4" -> 4 [] c = "5" -> 5 [] c = "6" -> 6 [] c = "7" -> 7
    [] c = "8" -> 8 [] OTHER -> 9

RECURSIVE DigitsVal(_)
DigitsVal(s) ==
  IF s = <<>> THEN 0 ELSE 10 * DigitsVal(SubSeq(s, 1, Len(s) - 1)) + DigitVal(s[Len(s)])

RECURSIVE TrimStart(_)
TrimStart(s) == IF s # <<>> /\ Head(s) = " " THEN TrimStart(Tail(s)) ELSE s

RECURSIVE TrimEnd(_)
TrimEnd(s) ==
  IF s # <<>> /\ s[Len(s)] = " " THEN TrimEnd(SubSeq(s, 1, Len(s) - 1)) ELSE s

Trim(s) == TrimEnd(TrimStart(s))

NaN == [nan |-> TRUE, neg |-> FALSE, ip |-> 0, fracnz |-> FALSE]

Num(neg, ip, fracnz) == [nan |-> FALSE, neg |-> neg, ip |-> ip, fracnz |-> fracnz]

\* an unsigned decimal literal
UnsignedNumber(u) ==
  LET dots == {i \in 1..Len(u) : u[i] = "."} IN
  IF u = <<>> \/ Cardinality(dots) > 1 \/ \E i \in 1..Len(u) : ~IsDigit(u[i]) /\ u[i] # "."
  THEN NaN
  ELSE IF dots = {} THEN Num(FALSE, DigitsVal(u), FALSE)
  ELSE LET d == CHOOSE i \in dots : TRUE
           ipart == SubSeq(u, 1, d - 1)
           fpart == SubSeq(u, d + 1, Len(u))
       IN IF ipart = <<>> /\ fpart = <<>> THEN NaN
          ELSE Num(FALSE, DigitsVal(ipart), \E i \in 1..Len(fpart) : fpart[i] # "0")

Number(s) ==
  LET t == Trim(s) IN
  IF t = <<>> THEN Num(FALSE, 0, FALSE)
  ELSE IF Head(t) \in {"-", "+"}
       THEN LET v == UnsignedNumber(Tail(t)) IN
            IF v.nan THEN NaN ELSE Num(Head(t) = "-", v.ip, v.fracnz)
       ELSE UnsignedNumber(t)

\* isNaN(prNumber) || prNumber <= 0 || !Number.isInteger(prNumber)
InvalidPrNumber(v) ==
  \/ v.nan
  \/ (v.neg \/ (v.ip = 0 /\ ~v.fracnz))
  \/ v.fracnz


(***************************************************************************)
(* Changed files, as the hosting platform's listFiles returns them.        *)
(***************************************************************************)
\* file.patch.length > 5000
PatchLimit == 5000
\* (f.patch || "").length > 2000
LargeDiffLimit == 2000

File(name, status, patch) ==
  [filename |-> name, status |-> status, additions |-> 1, deletions |-> 0,
   changes |-> 1, patch |-> patch]

NoPatch == [set |-> FALSE, val |-> <<>>]
Patch(rope) == [set |-> TRUE, val |-> rope]

\* if (file.patch): a patch that is present and not ""
PatchTruthy(p) == p.set /\ RopeLen(p.val) > 0

\* (f.patch || "")
PatchOrEmpty(p) == IF PatchTruthy(p) THEN p.val ELSE <<>>

PathConfig == <<"s", "r", "c", "/", "c", "o", "n", "f", "i", "g", "/", "d", "b", ".", "y", "a", "m", "l">>
PathTest == <<"T", "e", "s", "t", "_", "u", "t", "i", "l", "s", ".", "p", "y">>
PathAuth == <<"a", "u", "t", "h", ".", "t", "s">>
PathPlain == <<"R", "E", "A", "D", "M", "E", ".", "m", "d">>

PathSecretTest == <<"s", "e", "c", "r", "e", "t", "/", "t", "e", "s", "t", "s", ".", "j", "s">>

\* patches below, at and above LargeDiffLimit
SizedPatches ==
  {Patch(<<Run("x", LargeDiffLimit - 500)>>), Patch(<<Run("x", LargeDiffLimit)>>),
   Patch(<<Run("x", LargeDiffLimit), Run("y", 1)>>)}

\* files that exercise the heuristic rules: every path under both statuses
\* without a patch, and two of them with the sized patches
HeurPool ==
  {File(p, st, NoPatch) :
     p \in {PathConfig, PathTest, PathAuth, PathSecretTest, PathPlain},
     st \in {"modified", "removed"}}
  \cup {File(p, st, q) :
          p \in {PathConfig, PathTest}, st \in {"modified", "removed"}, q \in SizedPatches}

TailChars == <<"b", "c", "d", "e", "f">>

\* patches around PatchLimit: PatchLimit - 1 characters and a tail
CtxPatches ==
  {Patch(<<Run("a", PatchLimit - 1)>> \o R(SubSeq(TailChars, 1, k))) : k \in 0..MaxTail}

\* files that exercise the context builder
CtxPool ==
  {File(PathPlain, "added", q) : q \in CtxPatches \cup {NoPatch, Patch(<<>>)}}

(***************************************************************************)
(* The heuristic Analyzer's rules (part_001) and the first build's inline  *)
(* placeholder (dist/action.js).                                           *)
(***************************************************************************)
LargeDiffBody ==
  Lit("Large diff detected. Consider breaking changes into smaller commits for easier review.")
ConfigBody ==
  Lit("Configuration file modified. Ensure environment-specific values are documented and secrets are not committed.")
TestDeletedBody ==
  Lit("Test file deleted. Ensure functionality is still covered by remaining tests.")
SecurityBody ==
  Lit("Security-sensitive file modified. Please ensure proper security review is conducted.")

Comment(path, body) == [path |-> path, body |-> body]

IsLargeDiff(f) == RopeLen(PatchOrEmpty(f.patch)) > LargeDiffLimit

IsConfigModified(f) ==
  f.status = "modified" /\ Includes(ToLowerCase(f.filename), <<"c", "o", "n", "f", "i", "g">>)

IsTestRemoved(f) ==
  Includes(ToLowerCase(f.filename), <<"t", "e", "s", "t">>) /\ f.status = "removed"

IsSecuritySensitive(f) ==
  \/ Includes(ToLowerCase(f.filename), <<"a", "u", "t", "h">>)
  \/ Includes(ToLowerCase(f.filename), <<"s", "e", "c", "r", "e", "t">>)

\* one iteration of the loop over the files: the comments pushed for f
HeuristicFile(f) ==
     (IF IsLargeDiff(f) THEN <<Comment(f.filename, LargeDiffBody)>> ELSE <<>>)
  \o (IF IsConfigModified(f) THEN <<Comment(f.filename, ConfigBody)>> ELSE <<>>)
  \o (IF IsTestRemoved(f) THEN <<Comment(f.filename, TestDeletedBody)>> ELSE <<>>)
  \o (IF IsSecuritySensitive(f) THEN <<Comment(f.filename, SecurityBody)>> ELSE <<>>)

RECURSIVE HeuristicComments(_)
HeuristicComments(fs) ==
  IF fs = <<>> THEN <<>> ELSE HeuristicFile(Head(fs)) \o HeuristicComments(Tail(fs))

HeuristicSummary(cs, owner, repo, prNumber) ==
     Lit("Automated PR analysis found ") \o R(NatToChars(Len(cs)))
  \o Lit(" suggestion(s) for ") \o R(owner) \o Lit("/") \o R(repo)
  \o Lit("#") \o R(NatToChars(prNumber)) \o Lit(".")

\* dist/action.js: the first build's loop has the first two rules only
InlineHeuristicFile(f) ==
     (IF IsLargeDiff(f) THEN <<Comment(f.filename, LargeDiffBody)>> ELSE <<>>)
  \o (IF IsConfigModified(f) THEN <<Comment(f.filename, ConfigBody)>> ELSE <<>>)

RECURSIVE InlineHeuristicComments(_)
InlineHeuristicComments(fs) ==
  IF fs = <<>> THEN <<>>
  ELSE InlineHeuristicFile(Head(fs)) \o InlineHeuristicComments(Tail(fs))

InlineSummary(cs) ==
  Lit("Automated PR analysis found ") \o R(NatToChars(Len(cs))) \o Lit(" suggestion(s).")

(***************************************************************************)
(* The context builder of the AI Analyzer (mcp-server.ts).                 *)
(***************************************************************************)
TruncationMarker == Run("... (truncated)", 1)
NewLine == Run("\n", 1)

\* a builder that keeps one character less than PatchLimit; the truncation
\* property has to tell it from TruncatePatch
TruncatePatchOneShort(p) ==
  IF RopeLen(p) > PatchLimit
  THEN Substring0(p, PatchLimit - 1) \o <<NewLine, TruncationMarker>>
  ELSE p

\* file.patch.length > 5000 ? file.patch.substring(0, 5000) + "\n... (truncated)" : file.patch
TruncatePatch(p) ==
  IF RopeLen(p) > PatchLimit
  THEN Substring0(p, PatchLimit) \o <<NewLine, TruncationMarker>>
  ELSE p

\* the fences of the patch; a TLA+ string cannot hold a backquote, ' stands for it
DiffFenceOpen == Run("\n'''diff\n", 1)
DiffFenceClose == Run("\n'''\n", 1)

\* the section of one changed file
FileSection(f) ==
     Lit("### ") \o R(f.filename) \o Lit(" (") \o Lit(f.status) \o Lit(")\n")
  \o Lit("- **Additions**: +") \o R(NatToChars(f.additions)) \o Lit("\n")
  \o Lit("- **Deletions**: -") \o R(NatToChars(f.deletions)) \o Lit("\n")
  \o Lit("- **Changes**: ") \o R(NatToChars(f.changes)) \o Lit(" lines\n")
  \o (IF PatchTruthy(f.patch)
      THEN <<DiffFenceOpen>> \o TruncatePatch(f.patch.val) \o <<DiffFenceClose>>
      ELSE <<>>)
  \o Lit("\n")

\* the pull request the hosting platform's pulls.get returns
PullRequests ==
  {[title |-> <<"f", "i", "x">>, login |-> <<"b", "o", "b">>, state |-> "open",
    baseRef |-> <<"m", "a", "i", "n">>, headRef |-> <<"d", "e", "v">>, body |-> b] :
     b \in {Undefined, Str(<<>>), Str(<<"w", "h", "y">>)}}

\* the header, up to the list of the files
ContextHeader(pr, prNumber, nFiles) ==
     Lit("# Pull Request Analysis Request\n\n") \o Lit("## PR Information\n")
  \o Lit("- **Title**: ") \o R(pr.title) \o Lit("\n")
  \o Lit("- **Number**: #") \o R(NatToChars(prNumber)) \o Lit("\n")
  \o Lit("- **Author**: ") \o R(pr.login) \o Lit("\n")
  \o Lit("- **State**: ") \o Lit(pr.state) \o Lit("\n")
  \o Lit("- **Base Branch**: ") \o R(pr.baseRef) \o Lit(" <- **Head Branch**: ")
  \o R(pr.headRef) \o Lit("\n\n")
  \o (IF Truthy(pr.body) THEN Lit("## PR Description\n") \o R(pr.body.val) \o Lit("\n\n")
      ELSE <<>>)
  \o Lit("## Files Changed (") \o R(NatToChars(nFiles)) \o Lit(" files)\n\n")

RECURSIVE FileSections(_)
FileSections(fs) ==
  IF fs = <<>> THEN <<>> ELSE FileSection(Head(fs)) \o FileSections(Tail(fs))

BuildContext(pr, prNumber, fs) == ContextHeader(pr, prNumber, Len(fs)) \o FileSections(fs)


(***************************************************************************)
(* The AI Analyzer's comment extraction (mcp-server.ts), the loop of       *)
(* fileCommentRegex.exec over the response text:                           *)
(*   /(?:^|\n)(?:###?|File:|File\s+path:)\s*([^\n]+)\s*\n([\s\S]*?)        *)
(*    (?=\n(?:###?|File:|File\s+path:)|$)/gi                               *)
(* Offsets count from 0: the character at offset o is s[o + 1].  The       *)
(* flags are g and i, not m: ^ and $ are the ends of the text.             *)
(***************************************************************************)
IsSpace(c) == c \in {" ", "\n", "\t", "\r"}

\* the literal lit at offset o, letters compared without case (flag i)
LitAt(s, o, lit) ==
  /\ o + Len(lit) <= Len(s)
  /\ \A j \in 1..Len(lit) : LowerChar(s[o + j]) = LowerChar(lit[j])

RECURSIVE WsEnd(_, _)
\* the offset after the longest run of white space that starts at offset o
WsEnd(s, o) == IF o < Len(s) /\ IsSpace(s[o + 1]) THEN WsEnd(s, o + 1) ELSE o

RECURSIVE LineEnd(_, _)
\* the offset of the first line break at or after offset o, Len(s) without one
LineEnd(s, o) == IF o < Len(s) /\ s[o + 1] # "\n" THEN LineEnd(s, o + 1) ELSE o

\* (?:###?|File:|File\s+path:) at offset o: the offsets it can end at, in the
\* order the alternatives are tried
MarkerEnds(s, o) ==
     (IF LitAt(s, o, <<"#", "#", "#">>) THEN <<o + 3>> ELSE <<>>)
  \o (IF LitAt(s, o, <<"#", "#">>) THEN <<o + 2>> ELSE <<>>)
  \o (IF LitAt(s, o, <<"F", "i", "l", "e", ":">>) THEN <<o + 5>> ELSE <<>>)
  \o (IF /\ LitAt(s, o, <<"F", "i", "l", "e">>)
         /\ WsEnd(s, o + 4) > o + 4
         /\ LitAt(s, WsEnd(s, o + 4), <<"p", "a", "t", "h", ":">>)
      THEN <<WsEnd(s, o + 4) + 5>> ELSE <<>>)

NoMatch == [ok |-> FALSE, pathFrom |-> 0, pathTo |-> 0, bodyFrom |-> 0, bodyTo |-> 0]

\* \s*([^\n]+)\s*\n([\s\S]*?)(?=...|$) from offset m, where the marker ended.
\* The first \s* is greedy and gives back one character at a time; group 1
\* starts at a character that is no line break and runs to the end of its
\* line, which must end in a line break (a shorter group 1 never finds one);
\* the second \s* is greedy, so \n is the last line break of the white space
\* after the line; the body is lazy, up to the first line break a marker
\* follows, or the end of the text.
HeadingFrom(s, m) ==
  LET ws == {w \in m..WsEnd(s, m) :
                w < Len(s) /\ s[w + 1] # "\n" /\ LineEnd(s, w) < Len(s)}
  IN IF ws = {} THEN NoMatch
     ELSE LET w == CHOOSE x \in ws : \A y \in ws : y <= x
              e == LineEnd(s, w)
              q == CHOOSE x \in e..(WsEnd(s, e) - 1) :
                      /\ s[x + 1] = "\n"
                      /\ \A y \in (x + 1)..(WsEnd(s, e) - 1) : s[y + 1] # "\n"
              stops == {t \in (q + 1)..Len(s) :
                          \/ t = Len(s)
                          \/ s[t + 1] = "\n" /\ MarkerEnds(s, t + 1) # <<>>}
          IN [ok |-> TRUE, pathFrom |-> w, pathTo |-> e, bodyFrom |-> q + 1,
              bodyTo |-> CHOOSE t \in stops : \A u \in stops : t <= u]

\* the marker and what follows it, the marker starting at offset o
MarkerFrom(s, o) ==
  LET ends == MarkerEnds(s, o)
      oks == {i \in 1..Len(ends) : HeadingFrom(s, ends[i]).ok}
  IN IF oks = {} THEN NoMatch
     ELSE HeadingFrom(s, ends[CHOOSE i \in oks : \A j \in oks : i <= j])

\* the whole pattern with (?:^|\n) at offset p
MatchAt(s, p) ==
  IF p = 0 /\ MarkerFrom(s, 0).ok THEN MarkerFrom(s, 0)
  ELSE IF p < Len(s) /\ s[p + 1] = "\n" THEN MarkerFrom(s, p + 1)
  ELSE NoMatch

\* fileCommentRegex.exec(aiAnalysis) with lastIndex = from
Exec(s, from) ==
  LET ps == {p \in from..Len(s) : MatchAt(s, p).ok}
  IN IF ps = {} THEN NoMatch ELSE MatchAt(s, CHOOSE p \in ps : \A r \in ps : p <= r)

RECURSIVE TrimWsStart(_)
TrimWsStart(s) == IF s # <<>> /\ IsSpace(Head(s)) THEN TrimWsStart(Tail(s)) ELSE s

RECURSIVE TrimWsEnd(_)
TrimWsEnd(s) ==
  IF s # <<>> /\ IsSpace(s[Len(s)]) THEN TrimWsEnd(SubSeq(s, 1, Len(s) - 1)) ELSE s

\* String.prototype.trim
TrimWs(s) == TrimWsEnd(TrimWsStart(s))

\* the body of the while loop: the comment pushed for the match m, if any
PushedFor(s, m) ==
  LET filePath == TrimWs(SubSeq(s, m.pathFrom + 1, m.pathTo))
      comment == TrimWs(SubSeq(s, m.bodyFrom + 1, m.bodyTo))
  IN IF filePath # <<>> /\ comment # <<>> THEN <<Comment(filePath, R(comment))>> ELSE <<>>

RECURSIVE ExtractFrom(_, _)
\* the while loop: one exec after the other, each from where the last ended
ExtractFrom(s, from) ==
  IF ~Exec(s, from).ok THEN <<>>
  ELSE PushedFor(s, Exec(s, from)) \o ExtractFrom(s, Exec(s, from).bodyTo)

ExtractComments(aiAnalysis) == ExtractFrom(aiAnalysis, 0)


(***************************************************************************)
(* The analyze_pr handlers as functions of what they are given and of what *)
(* the hosting platform and the generative backend answer.                 *)
(***************************************************************************)
\* what a handler ends with: a structuredContent, or a throw
Returned(summary, cs) == [threw |-> FALSE, summary |-> summary, comments |-> cs]
Threw == [threw |-> TRUE, summary |-> <<>>, comments |-> <<>>]

\* a thrown value: its message, and String(error)
Errors ==
  {[message |-> Lit("Not Found"), str |-> Lit("HttpError: Not Found")],
   [message |-> <<>>, str |-> Lit("Error")],
   [message |-> <<>>, str |-> <<>>]}

\* error.message || String(error)
ErrorMessage(e) == IF RopeLen(e.message) > 0 THEN e.message ELSE e.str

MissingKeyError ==
  [message |-> Lit("Gemini API key is required. Set GEMINI_API_KEY environment variable or pass geminiApiKey parameter."),
   str |-> Lit("Error: Gemini API key is required.")]

\* mcp-server.ts, the catch block
Degraded(e) == Returned(Lit("Error during PR analysis: ") \o ErrorMessage(e), <<>>)

\* mcp-server.ts, the value returned after the generative call
AiResult(aiAnalysis) == Returned(R(aiAnalysis), ExtractComments(aiAnalysis))

\* geminiApiKey || process.env.GEMINI_API_KEY
ApiKey(a, key) == OrElse(a.geminiApiKey, key)

\* mcp-server.ts: io is what the two reads, the server's environment and the
\* generative call give
AnalyzePrAi(a, io) ==
  IF ~io.prOk \/ ~io.filesOk THEN Degraded(io.err)
  ELSE IF ~Truthy(ApiKey(a, io.envKey)) THEN Degraded(MissingKeyError)
  ELSE IF ~io.genOk THEN Degraded(io.err)
  ELSE AiResult(io.text)

\* part_001: no try/catch, a failed listFiles leaves the handler as a throw
AnalyzePrHeur(a, io) ==
  IF ~io.filesOk THEN Threw
  ELSE LET cs == HeuristicComments(io.files)
       IN Returned(HeuristicSummary(cs, a.owner, a.repo, a.prNumber), cs)

\* dist/mcp-server.js
AnalyzePrStub(a) ==
  Returned(Lit("Analysis placeholder for ") \o R(a.owner) \o Lit("/") \o R(a.repo)
           \o Lit("#") \o R(NatToChars(a.prNumber)), <<>>)

\* the responses of the generative backend the model draws from
AiTexts ==
  {<<>>,
   <<"L", "G", "T", "M">>,
   <<"#", "#", " ", "a", ".", "t", "s", "\n", "f", "i", "x", "\n", "#", "#", " ", "b", "\n", "o", "k", "\n">>}

(***************************************************************************)
(* State                                                                   *)
(***************************************************************************)
VARIABLES
  \* the Invoker (run)
  variant,    \* which build of the Invoker runs: "ts", "ai" or "dist"
  env,        \* process.env
  pc,         \* "start", the await run() is suspended at, or "exited"
  args,       \* owner, repo, prNumber, token read from env
  channel,    \* the tool channel: "none", "open", "closed"
  toolCalls,  \* the arguments of the callTool requests issued
  requests,   \* the hosting-platform requests the Invoker issued, in order
  reply,      \* what callTool resolved with
  log,        \* console.log / console.error lines
  exitCode,   \* -1 while running
  inlineComments, \* dist/action.js: the comments of its own loop
  \* the Analyzer (analyze_pr handler)
  server,     \* which build of the Analyzer answers: "ai", "heur", "stub"
  call,       \* the arguments of the call being handled
  pr,         \* pulls.get's answer
  files,      \* pulls.listFiles' answer
  envKey,     \* the server's process.env.GEMINI_API_KEY
  spc,        \* where the handler is
  idx,        \* the file the handler's loop is at
  prContext,  \* the context built so far
  comments,   \* the comments pushed so far
  emitted,    \* the sections appended to prContext, one per file
  aiAnalysis, \* the response text of the generative backend
  failed,     \* what failed inside the handler: "none", "pr", "files", "key", "gen"
  thrown,     \* the error that was thrown inside the handler
  outcome     \* what the handler ended with

invokerVars ==
  <<variant, env, pc, args, channel, toolCalls, requests, reply, log, exitCode, inlineComments>>
serverVars ==
  <<call, pr, files, envKey, spc, idx, prContext, comments, emitted, aiAnalysis, failed,
    thrown, outcome>>
vars == <<invokerVars, server, serverVars>>

(***************************************************************************)
(* The Invoker                                                             *)
(***************************************************************************)
PrAlphabet == {"0", "7", "-", ".", "a"}

\* the PR-number strings the environment may hold
PrStrings == SeqsUpTo(PrAlphabet, MaxPrLen) \cup {<<"1", "2", "a", "b", "c">>}

Envs ==
  [GITHUB_TOKEN : {Undefined, Str(<<>>), Str(<<"t">>)},
   GH_TOKEN : {Undefined, Str(<<"g">>)},
   GITHUB_REPOSITORY : {Undefined, Str(<<"a", "c", "m", "e", "/", "w", "i", "d", "g", "e", "t", "s">>), Str(<<"a", "c", "m", "e">>),
                        Str(<<"/", "w", "i", "d", "g", "e", "t", "s">>)},
   PR_NUMBER : {Undefined} \cup {Str(n) : n \in PrStrings},
   PR_NUMBER_INPUT : {Undefined, Str(<<"7">>)},
   GEMINI_API_KEY : {Undefined, Str(<<"k">>)}]

\* process.env.GITHUB_REPOSITORY?.split("/")[i], i from 0
RepositoryPart(v, i) ==
  IF ~v.set THEN Undefined
  ELSE LET parts == Split(v.val, "/")
       IN IF i + 1 <= Len(parts) THEN Str(parts[i + 1]) ELSE Undefined

\* run, up to the PR number: what the checks of the environment leave
ReadEnv(e) ==
  LET token == OrElse(e.GITHUB_TOKEN, e.GH_TOKEN)
      owner == RepositoryPart(e.GITHUB_REPOSITORY, 0)
      repo == RepositoryPart(e.GITHUB_REPOSITORY, 1)
      prNumberEnv == OrElse(e.PR_NUMBER, e.PR_NUMBER_INPUT)
  IN [err |-> IF ~Truthy(token) THEN "Missing GITHUB_TOKEN/GH_TOKEN in environment"
               ELSE IF ~Truthy(owner) \/ ~Truthy(repo) \/ ~Truthy(prNumberEnv)
               THEN "Missing owner/repo/prNumber from environment"
               ELSE "",
      token |-> token.val, owner |-> owner.val, repo |-> repo.val,
      prNumber |-> Number(prNumberEnv.val)]

\* action.ts and part_000: the environment, then the PR number, which must be
\* a positive integer; the error thrown, "" without one
SetupError(r) ==
  IF r.err # "" THEN r.err
  ELSE IF InvalidPrNumber(r.prNumber) THEN "Invalid PR number. Must be a positive integer."
  ELSE ""

\* dist/action.js: the environment only, the PR number is not looked at
DistSetupError(r) == r.err

NoArgs == [token |-> <<>>, owner |-> <<>>, repo |-> <<>>, prNumber |-> NaN]

ArgsOf(r) == [token |-> r.token, owner |-> r.owner, repo |-> r.repo, prNumber |-> r.prNumber]

\* the arguments of callTool({name: "analyze_pr", ...})
ToolArgs(a, key) ==
  [owner |-> a.owner, repo |-> a.repo, prNumber |-> a.prNumber.ip,
   githubToken |-> a.token, geminiApiKey |-> key]

NoReply == [received |-> FALSE, structured |-> FALSE, summary |-> <<>>, comments |-> <<>>]

Request(op, body) == [op |-> op, body |-> body]

\* the catch block of run: console.error("Error running action:", err),
\* process.exit(1)
Fail(l, err) ==
  /\ log' = Append(l, "Error running action: " \o err)
  /\ exitCode' = 1
  /\ pc' = "exited"

\* the end of run: the process ends with code 0
Complete(l) ==
  /\ log' = Append(l, "PR analysis completed.")
  /\ exitCode' = 0
  /\ pc' = "exited"

\* what a call of the Analyzer can resolve with.  A throw of the handler
\* reaches the Invoker as a rejected call or as a result without
\* structuredContent; the call can be rejected whatever the handler does.
ReplyFiles ==
  SeqsUpTo({File(PathConfig, "modified", Patch(<<Run("x", LargeDiffLimit - 500)>>)),
            File(PathPlain, "added", NoPatch)}, MaxFiles)

AiIO ==
  [prOk : BOOLEAN, filesOk : BOOLEAN, envKey : {Undefined, Str(<<"k">>)},
   genOk : BOOLEAN, text : AiTexts, err : Errors]

HeurIO == [filesOk : BOOLEAN, files : ReplyFiles]

HandlerResults(sv, a) ==
  CASE sv = "ai" -> {AnalyzePrAi(a, io) : io \in AiIO}
    [] sv = "heur" -> {AnalyzePrHeur(a, io) : io \in HeurIO}
    [] OTHER -> {AnalyzePrStub(a)}

Replies(sv, a) ==
  {NoReply}
  \cup {IF h.threw
        THEN [received |-> TRUE, structured |-> FALSE, summary |-> <<>>, comments |-> <<>>]
        ELSE [received |-> TRUE, structured |-> TRUE, summary |-> h.summary,
              comments |-> h.comments] : h \in HandlerResults(sv, a)}

\* if (!structuredContent) throw
StructuredMissing(r) == ~r.structured


Servers == {"ai", "heur", "stub"}

RECURSIVE JoinRopes(_, _)
\* Array.prototype.join
JoinRopes(rs, sep) ==
  IF rs = <<>> THEN <<>>
  ELSE IF Len(rs) = 1 THEN rs[1]
  ELSE rs[1] \o sep \o JoinRopes(Tail(rs), sep)

\* comments.map((c) => `**${c.path}**: ${c.body}`).join("\n\n")
ReviewBody(cs) ==
  JoinRopes([i \in 1..Len(cs) |-> Lit("**") \o R(cs[i].path) \o Lit("**: ") \o cs[i].body],
            Lit("\n\n"))

\* dist/action.js: comments.map((c) => `- ${c.path}: ${c.body}`).join("\n")
InlineReviewBody(cs) ==
  JoinRopes([i \in 1..Len(cs) |-> Lit("- ") \o R(cs[i].path) \o Lit(": ") \o cs[i].body],
            Lit("\n"))

\* part_000: the body of the summary comment (the source has a robot emoji
\* after "## ")
AiCommentBody(summary) == Lit("## AI-Powered PR Analysis\n\n") \o summary

(* ------------------------------ action.ts ------------------------------ *)

\* run, to the first await: the environment is read, transport.start() is called
TsRun ==
  /\ pc = "start" /\ variant = "ts"
  /\ LET r == ReadEnv(env) IN
       IF SetupError(r) = ""
       THEN /\ args' = ArgsOf(r)
            /\ pc' = "await_start"
            /\ UNCHANGED <<log, exitCode>>
       ELSE /\ Fail(log, SetupError(r))
            /\ UNCHANGED args
  /\ UNCHANGED <<variant, env, channel, toolCalls, requests, reply, inlineComments,
                 server, serverVars>>

\* await transport.start() settles; client.connect(transport) is called
TsStarted ==
  /\ pc = "await_start" /\ variant = "ts"
  /\ \E ok \in BOOLEAN :
       IF ok
       THEN /\ channel' = "open"
            /\ pc' = "await_connect"
            /\ UNCHANGED <<log, exitCode>>
       ELSE /\ Fail(log, "transport.start rejected")
            /\ UNCHANGED channel
  /\ UNCHANGED <<variant, env, args, toolCalls, requests, reply, inlineComments,
                 server, serverVars>>

\* await client.connect(transport) settles; callTool is called
TsConnected ==
  /\ pc = "await_connect" /\ variant = "ts"
  /\ \E ok \in BOOLEAN :
       IF ok
       THEN /\ log' = Append(log, "Connected to MCP server")
            /\ toolCalls' = Append(toolCalls, ToolArgs(args, Undefined))
            /\ pc' = "await_callTool"
            /\ UNCHANGED exitCode
       ELSE /\ Fail(log, "client.connect rejected")
            /\ UNCHANGED toolCalls
  /\ UNCHANGED <<variant, env, args, channel, requests, reply, inlineComments,
                 server, serverVars>>

\* TsOnReply without its check of structuredContent: the summary is posted
\* whatever the reply holds
TsOnReplyUnchecked(r) ==
  /\ requests' = Append(requests, Request("createComment", r.summary))
  /\ pc' = "await_createComment"
  /\ UNCHANGED <<log, exitCode>>

\* what run does with the result of callTool, up to its next await
TsOnReply(r) ==
  IF StructuredMissing(r)
  THEN /\ Fail(log, "MCP server did not return structured content")
       /\ UNCHANGED requests
  ELSE /\ requests' = Append(requests, Request("createComment", r.summary))
       /\ pc' = "await_createComment"
       /\ UNCHANGED <<log, exitCode>>

\* await client.callTool(...) settles
TsToolReplied ==
  /\ pc = "await_callTool" /\ variant = "ts"
  /\ \E sv \in Servers : \E r \in Replies(sv, toolCalls[Len(toolCalls)]) :
       /\ server' = sv
       /\ reply' = r
       /\ IF r.received THEN TsOnReply(r)
          ELSE Fail(log, "client.callTool rejected") /\ UNCHANGED requests
  /\ UNCHANGED <<variant, env, args, channel, toolCalls, inlineComments, serverVars>>

\* after the summary comment: the review if there are comments, else the close
TsAfterComment(l) ==
  IF Len(reply.comments) > 0
  THEN /\ requests' = Append(requests, Request("createReview", ReviewBody(reply.comments)))
       /\ pc' = "await_createReview"
       /\ log' = l
  ELSE /\ pc' = "await_close"
       /\ log' = l
       /\ UNCHANGED requests

\* await octokit.issues.createComment(...) settles; a failure is logged
TsCommentSettled ==
  /\ pc = "await_createComment" /\ variant = "ts"
  /\ \E ok \in BOOLEAN :
       TsAfterComment(IF ok THEN log ELSE Append(log, "Failed to post summary comment"))
  /\ UNCHANGED <<variant, env, args, channel, toolCalls, reply, exitCode, inlineComments,
                 server, serverVars>>

\* await octokit.pulls.createReview(...) settles; transport.close() is called
TsReviewSettled ==
  /\ pc = "await_createReview" /\ variant = "ts"
  /\ \E ok \in BOOLEAN :
       log' = IF ok THEN log ELSE Append(log, "Failed to post review")
  /\ pc' = "await_close"
  /\ UNCHANGED <<variant, env, args, channel, toolCalls, requests, reply, exitCode,
                 inlineComments, server, serverVars>>

\* await transport.close() settles
TsClosed ==
  /\ pc = "await_close" /\ variant = "ts"
  /\ \E ok \in BOOLEAN :
       IF ok
       THEN /\ channel' = "closed"
            /\ Complete(log)
       ELSE /\ Fail(log, "transport.close rejected")
            /\ UNCHANGED channel
  /\ UNCHANGED <<variant, env, args, toolCalls, requests, reply, inlineComments,
                 server, serverVars>>

(* ------------------------------ part_000 ------------------------------- *)

\* run, to the first await: client.connect(transport) is called
AiRun ==
  /\ pc = "start" /\ variant = "ai"
  /\ LET r == ReadEnv(env) IN
       IF SetupError(r) = ""
       THEN /\ args' = ArgsOf(r)
            /\ pc' = "await_connect"
            /\ UNCHANGED <<log, exitCode>>
       ELSE /\ Fail(log, SetupError(r))
            /\ UNCHANGED args
  /\ UNCHANGED <<variant, env, channel, toolCalls, requests, reply, inlineComments,
                 server, serverVars>>

\* after the connect: GEMINI_API_KEY is read, callTool is called
AiAfterConnect(l) ==
  IF ~Truthy(env.GEMINI_API_KEY)
  THEN /\ Fail(l, "GEMINI_API_KEY environment variable is required for AI analysis")
       /\ UNCHANGED toolCalls
  ELSE /\ log' = Append(l, "Calling analyze_pr tool...")
       /\ toolCalls' = Append(toolCalls, ToolArgs(args, env.GEMINI_API_KEY))
       /\ pc' = "await_callTool"
       /\ UNCHANGED exitCode

\* await client.connect(transport) settles (connect starts the transport)
AiConnected ==
  /\ pc = "await_connect" /\ variant = "ai"
  /\ \E ok \in BOOLEAN :
       IF ok
       THEN /\ channel' = "open"
            /\ AiAfterConnect(Append(log, "Connected to MCP server"))
       ELSE /\ Fail(log, "client.connect rejected")
            /\ UNCHANGED <<channel, toolCalls>>
  /\ UNCHANGED <<variant, env, args, requests, reply, inlineComments, server, serverVars>>

AiOnReply(r) ==
  IF StructuredMissing(r)
  THEN /\ Fail(log, "MCP server did not return structured content")
       /\ UNCHANGED requests
  ELSE /\ requests' = Append(requests, Request("createComment", AiCommentBody(r.summary)))
       /\ pc' = "await_createComment"
       /\ UNCHANGED <<log, exitCode>>

\* await client.callTool(...) settles
AiToolReplied ==
  /\ pc = "await_callTool" /\ variant = "ai"
  /\ \E sv \in Servers : \E r \in Replies(sv, toolCalls[Len(toolCalls)]) :
       /\ server' = sv
       /\ reply' = r
       /\ IF r.received THEN AiOnReply(r)
          ELSE Fail(log, "client.callTool rejected") /\ UNCHANGED requests
  /\ UNCHANGED <<variant, env, args, channel, toolCalls, inlineComments, serverVars>>

\* the catch of the summary comment: console.error, throw error
AiCommentFailed ==
  Fail(Append(log, "Failed to post AI analysis comment"), "issues.createComment rejected")

\* await octokit.issues.createComment(...) settles
AiCommentSettled ==
  /\ pc = "await_createComment" /\ variant = "ai"
  /\ \E ok \in BOOLEAN :
       IF ok
       THEN /\ log' = Append(log, "AI analysis posted successfully")
            /\ pc' = "await_close"
            /\ UNCHANGED exitCode
       ELSE AiCommentFailed
  /\ UNCHANGED <<variant, env, args, channel, toolCalls, requests, reply, inlineComments,
                 server, serverVars>>

\* await transport.close() settles
AiClosed ==
  /\ pc = "await_close" /\ variant = "ai"
  /\ \E ok \in BOOLEAN :
       IF ok
       THEN /\ channel' = "closed"
            /\ Complete(log)
       ELSE /\ Fail(log, "transport.close rejected")
            /\ UNCHANGED channel
  /\ UNCHANGED <<variant, env, args, toolCalls, requests, reply, inlineComments,
                 server, serverVars>>

(* ---------------------------- dist/action.js --------------------------- *)

\* run, to the first await: no check of the PR number; listFiles is called
DistRun ==
  /\ pc = "start" /\ variant = "dist"
  /\ LET r == ReadEnv(env) IN
       IF DistSetupError(r) = ""
       THEN /\ args' = ArgsOf(r)
            /\ requests' = Append(requests, Request("listFiles", <<>>))
            /\ pc' = "await_listFiles"
            /\ UNCHANGED <<log, exitCode>>
       ELSE /\ Fail(log, DistSetupError(r))
            /\ UNCHANGED <<args, requests>>
  /\ UNCHANGED <<variant, env, channel, toolCalls, reply, inlineComments, server, serverVars>>

\* the changed-file lists dist/action.js's own listFiles answers with
ListedFiles ==
  SeqsUpTo({File(PathConfig, "modified", Patch(<<Run("x", LargeDiffLimit - 500)>>)),
            File(PathTest, "removed", NoPatch),
            File(PathAuth, "added", Patch(<<Run("x", LargeDiffLimit), Run("y", 1)>>))},
           MaxFiles)

\* await octokit.pulls.listFiles(...) settles; the loop; createComment is called
DistFilesListed ==
  /\ pc = "await_listFiles" /\ variant = "dist"
  /\ \E ok \in BOOLEAN : \E fs \in ListedFiles :
       IF ok
       THEN /\ files' = fs
            /\ inlineComments' = InlineHeuristicComments(fs)
            /\ requests' = Append(requests,
                 Request("createComment", InlineSummary(InlineHeuristicComments(fs))))
            /\ pc' = "await_createComment"
            /\ UNCHANGED <<log, exitCode>>
       ELSE /\ Fail(log, "pulls.listFiles rejected")
            /\ UNCHANGED <<inlineComments, requests, files>>
  /\ UNCHANGED <<variant, env, args, channel, toolCalls, reply, server, call, pr, envKey,
                 spc, idx, prContext, comments, emitted, aiAnalysis, failed, thrown,
                 outcome>>

\* await octokit.issues.createComment(...) settles
DistCommentSettled ==
  /\ pc = "await_createComment" /\ variant = "dist"
  /\ \E ok \in BOOLEAN :
       IF ~ok THEN Fail(log, "issues.createComment rejected") /\ UNCHANGED requests
       ELSE IF Len(inlineComments) > 0
       THEN /\ requests' = Append(requests,
                 Request("createReview", InlineReviewBody(inlineComments)))
            /\ pc' = "await_createReview"
            /\ UNCHANGED <<log, exitCode>>
       ELSE /\ Complete(log)
            /\ UNCHANGED requests
  /\ UNCHANGED <<variant, env, args, channel, toolCalls, reply, inlineComments,
                 server, serverVars>>

\* await octokit.pulls.createReview(...) settles
DistReviewSettled ==
  /\ pc = "await_createReview" /\ variant = "dist"
  /\ \E ok \in BOOLEAN :
       IF ok THEN Complete(log) ELSE Fail(log, "pulls.createReview rejected")
  /\ UNCHANGED <<variant, env, args, channel, toolCalls, requests, reply, inlineComments,
                 server, serverVars>>

(***************************************************************************)
(* The Invoker's specification: every build, under every environment.      *)
(***************************************************************************)
NoCall == ToolArgs(NoArgs, Undefined)
NoPr == [title |-> <<>>, login |-> <<>>, state |-> "", baseRef |-> <<>>, headRef |-> <<>>,
         body |-> Undefined]
NoOutcome == [done |-> FALSE, threw |-> FALSE, summary |-> <<>>, comments |-> <<>>]
NoError == [message |-> <<>>, str |-> <<>>]

ServerIdle ==
  /\ call = NoCall /\ pr = NoPr /\ files = <<>> /\ envKey = Undefined
  /\ spc = "idle" /\ idx = 0 /\ prContext = <<>> /\ comments = <<>>
  /\ emitted = <<>> /\ aiAnalysis = <<>>
  /\ failed = "none" /\ thrown = NoError /\ outcome = NoOutcome

Init ==
  /\ variant \in {"ts", "ai", "dist"}
  /\ env \in Envs
  /\ pc = "start"
  /\ args = NoArgs
  /\ channel = "none"
  /\ toolCalls = <<>>
  /\ requests = <<>>
  /\ reply = NoReply
  /\ log = <<>>
  /\ exitCode = -1
  /\ inlineComments = <<>>
  /\ server = "none"
  /\ ServerIdle

Next ==
  \/ TsRun \/ TsStarted \/ TsConnected \/ TsToolReplied \/ TsCommentSettled
  \/ TsReviewSettled \/ TsClosed
  \/ AiRun \/ AiConnected \/ AiToolReplied \/ AiCommentSettled \/ AiClosed
  \/ DistRun \/ DistFilesListed \/ DistCommentSettled \/ DistReviewSettled

Spec == Init /\ [][Next]_vars


(***************************************************************************)
(* Claims about the Invoker, checked under Spec.                           *)
(***************************************************************************)
\* the builds of the Invoker that talk to the Analyzer over the tool channel
McpBuild == variant \in {"ts", "ai"}

Exited == pc = "exited"

WriteOps == {"createComment", "createReview"}

RequestsOf(ops) == {i \in 1..Len(requests) : requests[i].op \in ops}

Logged(line) == \E i \in 1..Len(log) : log[i] = line

\* the PR-number value run reads: PR_NUMBER || PR_NUMBER_INPUT
PrNumberEnv == OrElse(env.PR_NUMBER, env.PR_NUMBER_INPUT)

\* the string is the decimal numeral of a positive integer: digits, not all
\* of them 0, with at most a sign + before and a fraction of zeros after
DenotesPositiveInteger(s) ==
  LET t == Trim(s)
      u == IF t # <<>> /\ Head(t) = "+" THEN Tail(t) ELSE t
      dots == {i \in 1..Len(u) : u[i] = "."}
      d == IF dots = {} THEN Len(u) + 1 ELSE CHOOSE i \in dots : \A j \in dots : i <= j
  IN /\ d > 1
     /\ \A i \in 1..(d - 1) : IsDigit(u[i])
     /\ \E i \in 1..(d - 1) : u[i] # "0"
     /\ \A i \in (d + 1)..Len(u) : u[i] = "0"

\* C1: when the PR-number value is a string that does not denote a positive
\* integer, no tool call and no hosting-platform request is ever issued, and
\* the run ends with exit code 1.
C1_InvalidPrNumberFailsFast ==
  (Truthy(PrNumberEnv) /\ ~DenotesPositiveInteger(PrNumberEnv.val)) =>
     /\ toolCalls = <<>>
     /\ requests = <<>>
     /\ Exited => exitCode = 1

\* C1 for the two builds that have the check (action.ts, part_000)
C1_HoldsInMcpBuilds == McpBuild => C1_InvalidPrNumberFailsFast

\* a required environment value is absent: the credential under both names,
\* owner or repo, the PR number under both names, and for the AI build the
\* generative-backend credential
RequiredValueAbsent ==
  \/ ~Truthy(OrElse(env.GITHUB_TOKEN, env.GH_TOKEN))
  \/ ~Truthy(RepositoryPart(env.GITHUB_REPOSITORY, 0))
  \/ ~Truthy(RepositoryPart(env.GITHUB_REPOSITORY, 1))
  \/ ~Truthy(PrNumberEnv)
  \/ variant = "ai" /\ ~Truthy(env.GEMINI_API_KEY)

\* C2: when a required environment value is absent, the run ends with a
\* nonzero exit code and the tool channel is never established, no tool call
\* and no hosting-platform request is ever issued.
C2_MissingValueFailsBeforeChannel ==
  (McpBuild /\ RequiredValueAbsent) =>
     /\ channel = "none"
     /\ toolCalls = <<>>
     /\ requests = <<>>
     /\ Exited => exitCode = 1

PostingFailed ==
  \/ Logged("Failed to post summary comment")
  \/ Logged("Failed to post review")
  \/ Logged("Failed to post AI analysis comment")

CloseRejected == Logged("Error running action: transport.close rejected")

\* C3: after a reply with structured content, a failed summary comment or a
\* failed review does not abort the run: it reports "PR analysis completed."
\* and ends with exit code 0 (the close of the channel succeeding).
C3_PostingFailureNeverAborts ==
  (McpBuild /\ Exited /\ reply.structured /\ PostingFailed /\ ~CloseRejected) =>
     /\ exitCode = 0
     /\ Logged("PR analysis completed.")

\* C3 for action.ts, with the review still attempted after a failed summary
C3_HoldsInActionTs ==
  (variant = "ts" /\ Exited /\ reply.structured /\ ~CloseRejected) =>
     /\ exitCode = 0
     /\ Logged("PR analysis completed.")
     /\ (reply.comments # <<>>) => RequestsOf({"createReview"}) # {}

\* C4: on every path on which the tool channel was opened, it is closed when
\* the process exits.
C4_ChannelClosedBeforeExit == (McpBuild /\ Exited) => channel # "open"

\* the review body the claim describes: one "**path**: body" entry per
\* comment, in order, entries separated by an empty line
ExpectedReviewBody(cs) ==
  IF cs = <<>> THEN <<>>
  ELSE LET entry(i) == <<Run("**", 1)>> \o R(cs[i].path) \o <<Run("**: ", 1)>> \o cs[i].body
           rest[i \in 1..Len(cs)] ==
             IF i = Len(cs) THEN entry(i) ELSE entry(i) \o <<Run("\n\n", 1)>> \o rest[i + 1]
       IN rest[1]

\* C6: at most one analyze_pr call; at most one summary comment, attempted
\* before any review; when the run completes, a review was attempted exactly
\* once if the returned comment list is non-empty and not at all otherwise,
\* its body being the joined "**path**: body" entries.
C6_OneCallOneCommentOneReview ==
  McpBuild =>
     /\ Len(toolCalls) <= 1
     /\ Cardinality(RequestsOf({"createComment"})) <= 1
     /\ \A i \in RequestsOf({"createReview"}) :
          /\ \E j \in RequestsOf({"createComment"}) : j < i
          /\ requests[i].body = ExpectedReviewBody(reply.comments)
     /\ (Exited /\ exitCode = 0) =>
          /\ Len(toolCalls) = 1
          /\ Cardinality(RequestsOf({"createComment"})) = 1
          /\ Cardinality(RequestsOf({"createReview"})) =
               (IF reply.comments # <<>> THEN 1 ELSE 0)

\* C6 for action.ts
C6_HoldsInActionTs == variant = "ts" => C6_OneCallOneCommentOneReview

\* C7: a reply without structured content ends the run with exit code 1 and
\* without a summary comment or a review; and no hosting-platform write is
\* issued before a reply with structured content has been received.
C7_NoWriteWithoutStructuredReply ==
  McpBuild =>
     /\ RequestsOf(WriteOps) # {} => reply.received /\ reply.structured
     /\ (reply.received /\ ~reply.structured) =>
          /\ Exited
          /\ exitCode = 1
          /\ RequestsOf(WriteOps) = {}

\* a run that received a reply without structured content
C7_Witness ==
  McpBuild /\ reply.received /\ ~reply.structured /\ Exited /\ exitCode = 1
  /\ Len(toolCalls) = 1


(***************************************************************************)
(* The Analyzer: the analyze_pr handler, one call, stepped at its awaits   *)
(* and at the iterations of its loop over the files.                       *)
(***************************************************************************)
InvokerIdle ==
  /\ variant = "none"
  /\ env = [k \in {"GITHUB_TOKEN", "GH_TOKEN", "GITHUB_REPOSITORY", "PR_NUMBER",
                   "PR_NUMBER_INPUT", "GEMINI_API_KEY"} |-> Undefined]
  /\ pc = "none" /\ args = NoArgs /\ channel = "none" /\ toolCalls = <<>>
  /\ requests = <<>> /\ reply = NoReply /\ log = <<>> /\ exitCode = -1
  /\ inlineComments = <<>>

\* the calls the handler is given
Calls ==
  [owner : {<<"a", "c", "m", "e">>}, repo : {<<"w", "i", "d", "g", "e", "t", "s">>},
   prNumber : {7}, githubToken : {<<"t">>}, geminiApiKey : {Undefined, Str(<<"k">>)}]

\* the changed files of the pull request, as the platform lists them
ChangedFiles(sv) ==
  CASE sv = "ai" -> SeqsUpTo(CtxPool, MaxFiles)
    [] sv = "heur" -> SeqsUpTo(HeurPool, MaxFiles)
    [] OTHER -> {<<>>}

Done(h) == [done |-> TRUE, threw |-> h.threw, summary |-> h.summary, comments |-> h.comments]

\* the handler ends: with a value, or by a throw
Finish(h, what, e) ==
  /\ outcome' = Done(h)
  /\ failed' = what
  /\ thrown' = e
  /\ spc' = "done"

\* mcp-server.ts: Promise.all([pulls.get, pulls.listFiles]) is issued
AiInvoke ==
  /\ server = "ai" /\ spc = "idle"
  /\ spc' = "await_reads"
  /\ UNCHANGED <<invokerVars, server, call, pr, files, envKey, idx, prContext, comments,
                 emitted, aiAnalysis, failed, thrown, outcome>>

\* the two reads settle; on success the header of the context is written
AiReadsSettled ==
  /\ server = "ai" /\ spc = "await_reads"
  /\ \E prOk \in BOOLEAN, filesOk \in BOOLEAN, p \in PullRequests, e \in Errors :
       IF prOk /\ filesOk
       THEN /\ pr' = p
            /\ prContext' = ContextHeader(p, call.prNumber, Len(files))
            /\ idx' = 1
            /\ spc' = "loop"
            /\ UNCHANGED <<failed, thrown, outcome>>
       ELSE /\ Finish(Degraded(e), IF ~prOk THEN "pr" ELSE "files", e)
            /\ UNCHANGED <<pr, prContext, idx>>
  /\ UNCHANGED <<invokerVars, server, call, files, envKey, comments, emitted, aiAnalysis>>

\* one iteration of: for (const file of files) prContext += ...
AiContextFile ==
  /\ server = "ai" /\ spc = "loop" /\ idx <= Len(files)
  /\ prContext' = prContext \o FileSection(files[idx])
  /\ emitted' = Append(emitted, FileSection(files[idx]))
  /\ idx' = idx + 1
  /\ UNCHANGED <<invokerVars, server, call, pr, files, envKey, spc, comments, aiAnalysis,
                 failed, thrown, outcome>>

\* after the loop: the key check, then generateContent is issued
AiContextBuilt ==
  /\ server = "ai" /\ spc = "loop" /\ idx > Len(files)
  /\ IF ~Truthy(ApiKey(call, envKey))
     THEN Finish(Degraded(MissingKeyError), "key", MissingKeyError)
     ELSE /\ spc' = "await_gen"
          /\ UNCHANGED <<failed, thrown, outcome>>
  /\ UNCHANGED <<invokerVars, server, call, pr, files, envKey, idx, prContext, comments,
                 emitted, aiAnalysis>>

\* generateContent settles, with a response text of texts or with a throw;
\* on success the comments are extracted
AiSettles(texts) ==
  /\ server = "ai" /\ spc = "await_gen"
  /\ \/ \E t \in texts :
          /\ aiAnalysis' = t
          /\ comments' = ExtractComments(t)
          /\ Finish(AiResult(t), "none", NoError)
     \/ \E e \in Errors :
          /\ Finish(Degraded(e), "gen", e)
          /\ UNCHANGED <<aiAnalysis, comments>>
  /\ UNCHANGED <<invokerVars, server, call, pr, files, envKey, idx, prContext, emitted>>

AiGenerated == AiSettles(AiTexts)

\* part_001: pulls.listFiles is issued
HeurInvoke ==
  /\ server = "heur" /\ spc = "idle"
  /\ spc' = "await_files"
  /\ UNCHANGED <<invokerVars, server, call, pr, files, envKey, idx, prContext, comments,
                 emitted, aiAnalysis, failed, thrown, outcome>>

\* listFiles settles; nothing catches its rejection
HeurFilesSettled ==
  /\ server = "heur" /\ spc = "await_files"
  /\ \E ok \in BOOLEAN, e \in Errors :
       IF ok
       THEN /\ idx' = 1
            /\ spc' = "loop"
            /\ UNCHANGED <<failed, thrown, outcome>>
       ELSE /\ Finish(Threw, "files", e)
            /\ UNCHANGED idx
  /\ UNCHANGED <<invokerVars, server, call, pr, files, envKey, prContext, comments, emitted,
                 aiAnalysis>>

\* one iteration of: for (const f of files) { the four rules }
HeurFile ==
  /\ server = "heur" /\ spc = "loop" /\ idx <= Len(files)
  /\ comments' = comments \o HeuristicFile(files[idx])
  /\ idx' = idx + 1
  /\ UNCHANGED <<invokerVars, server, call, pr, files, envKey, spc, prContext, emitted,
                 aiAnalysis, failed, thrown, outcome>>

\* after the loop: the summary, and the return
HeurReturn ==
  /\ server = "heur" /\ spc = "loop" /\ idx > Len(files)
  /\ Finish(Returned(HeuristicSummary(comments, call.owner, call.repo, call.prNumber),
                     comments), "none", NoError)
  /\ UNCHANGED <<invokerVars, server, call, pr, files, envKey, idx, prContext, comments,
                 emitted, aiAnalysis>>

\* dist/mcp-server.js: the placeholder answers at once
StubHandle ==
  /\ server = "stub" /\ spc = "idle"
  /\ Finish(AnalyzePrStub(call), "none", NoError)
  /\ UNCHANGED <<invokerVars, server, call, pr, files, envKey, idx, prContext, comments,
                 emitted, aiAnalysis>>

InitServer ==
  /\ InvokerIdle
  /\ server \in Servers
  /\ call \in Calls
  /\ files \in ChangedFiles(server)
  /\ envKey \in {Undefined, Str(<<"k">>)}
  /\ pr = NoPr
  /\ spc = "idle" /\ idx = 0 /\ prContext = <<>> /\ comments = <<>>
  /\ emitted = <<>> /\ aiAnalysis = <<>>
  /\ failed = "none" /\ thrown = NoError /\ outcome = NoOutcome

NextServer ==
  \/ AiInvoke \/ AiReadsSettled \/ AiContextFile \/ AiContextBuilt \/ AiGenerated
  \/ HeurInvoke \/ HeurFilesSettled \/ HeurFile \/ HeurReturn
  \/ StubHandle

SpecServer == InitServer /\ [][NextServer]_vars

\* the stepped handler ends as the handler's function of its inputs does
StepsAgreeWithHandler ==
  outcome.done =>
    CASE server = "ai" ->
           \E io \in AiIO :
             /\ io.envKey = envKey
             /\ outcome = Done(AnalyzePrAi(call, io))
      [] server = "heur" ->
           outcome \in {Done(AnalyzePrHeur(call, [filesOk |-> ok, files |-> files])) :
                          ok \in BOOLEAN}
      [] OTHER -> outcome = Done(AnalyzePrStub(call))


(***************************************************************************)
(* Claims about the Analyzer, checked under SpecServer.                    *)
(***************************************************************************)
RECURSIVE Repeat(_, _)
Repeat(str, k) == IF k = 0 THEN "" ELSE str \o Repeat(str, k - 1)

RECURSIVE Text(_)
\* the text a rope stands for, as one string
Text(r) == IF r = <<>> THEN "" ELSE Repeat(Head(r).ch, Head(r).n) \o Text(Tail(r))

HandlerFailed == outcome.done /\ failed # "none"

\* C5: whatever fails inside the analyze_pr handler (either read, the missing
\* key, the generative call), the handler does not throw: it returns a
\* non-empty summary and an empty comment list.
C5_FailureGivesDegradedResult ==
  HandlerFailed =>
     /\ ~outcome.threw
     /\ RopeLen(outcome.summary) > 0
     /\ outcome.comments = <<>>

\* mcp-server.ts keeps C5, and its summary is the error's text after a prefix
C5_HoldsInMcpServerTs ==
  (server = "ai" /\ HandlerFailed) =>
     /\ ~outcome.threw
     /\ outcome.summary = Lit("Error during PR analysis: ") \o ErrorMessage(thrown)
     /\ RopeLen(outcome.summary) > 0
     /\ outcome.comments = <<>>

\* the runs of a section between the opening and the closing fence
FenceBody(sec) ==
  LET o == CHOOSE i \in 1..Len(sec) : sec[i] = DiffFenceOpen
      c == CHOOSE i \in 1..Len(sec) : i > o /\ sec[i] = DiffFenceClose
  IN  SubSeq(sec, o + 1, c - 1)

RECURSIVE IsPrefixOf(_, _)
\* p is a prefix of q, both normalised
IsPrefixOf(p, q) ==
  IF p = <<>> THEN TRUE
  ELSE IF q = <<>> THEN FALSE
  ELSE /\ Head(p).ch = Head(q).ch
       /\ \/ Head(p).n = Head(q).n /\ IsPrefixOf(Tail(p), Tail(q))
          \/ Head(p).n < Head(q).n /\ Tail(p) = <<>>

\* kept is exactly the first PatchLimit characters of patch
FirstChars(kept, patch) ==
  /\ RopeLen(kept) = PatchLimit
  /\ IsPrefixOf(Norm(kept), Norm(patch))

HasMarker(sec) == \E i \in 1..Len(sec) : sec[i] = TruncationMarker

\* the section of file i obeys C8, the marker coming after `before`
SectionTruncated(i, before) ==
  LET p == files[i].patch
      body == FenceBody(emitted[i])
      k == Len(body) - Len(before) - 1
  IN  PatchTruthy(p) =>
        IF RopeLen(p.val) > PatchLimit
        THEN /\ k >= 0
             /\ SubSeq(body, k + 1, Len(body)) = before \o <<TruncationMarker>>
             /\ FirstChars(SubSeq(body, 1, k), p.val)
        ELSE /\ Norm(body) = Norm(p.val)
             /\ ~HasMarker(emitted[i])

\* C8, as the spec states it: a patch longer than 5000 characters is emitted
\* as its first 5000 characters followed at once by "... (truncated)" and
\* nothing more of the patch; a patch of at most 5000 characters is emitted
\* whole, without the marker.
C8_TruncatedAtLimit ==
  \A i \in 1..Len(emitted) : SectionTruncated(i, <<>>)

\* C8, amended: a patch longer than 5000 characters is emitted as its first
\* 5000 characters, a line break, and then "... (truncated)", and nothing more
\* of the patch; a patch of at most 5000 characters is emitted whole, without
\* the marker.
C8_TruncatedAtLimitWithLineBreak ==
  \A i \in 1..Len(emitted) : SectionTruncated(i, <<NewLine>>)

\* sections were emitted for a patch above the limit and for one at the limit
C8_Witness ==
  /\ server = "ai"
  /\ \E i \in 1..Len(emitted) : RopeLen(PatchOrEmpty(files[i].patch)) > PatchLimit
  /\ \E i \in 1..Len(emitted) : RopeLen(PatchOrEmpty(files[i].patch)) = PatchLimit

(***************************************************************************)
(* Claims about the heuristic rules: part_001's handler under SpecServer,  *)
(* dist/action.js's own loop under Spec.                                   *)
(***************************************************************************)
\* path contains word, letter case ignored
ContainsAnyCase(path, word) ==
  \E k \in 0..(Len(path) - Len(word)) :
     \A j \in 1..Len(word) : LowerChar(path[k + j]) = word[j]

\* the four rules as the spec lists them: whether each matches f, and its message
RuleTable(f) ==
  <<[on |-> RopeLen(IF f.patch.set THEN f.patch.val ELSE <<>>) > LargeDiffLimit,
     body |-> LargeDiffBody],
    [on |-> f.status = "modified" /\ ContainsAnyCase(f.filename, <<"c", "o", "n", "f", "i", "g">>),
     body |-> ConfigBody],
    [on |-> ContainsAnyCase(f.filename, <<"t", "e", "s", "t">>) /\ f.status = "removed",
     body |-> TestDeletedBody],
    [on |-> \/ ContainsAnyCase(f.filename, <<"a", "u", "t", "h">>)
            \/ ContainsAnyCase(f.filename, <<"s", "e", "c", "r", "e", "t">>),
     body |-> SecurityBody]>>

RuleOn(r) == r.on

ExpectedFor(f) ==
  LET hit == SelectSeq(RuleTable(f), RuleOn)
  IN  [i \in 1..Len(hit) |-> Comment(f.filename, hit[i].body)]

RECURSIVE ExpectedComments(_)
ExpectedComments(fs) ==
  IF fs = <<>> THEN <<>> ELSE ExpectedFor(Head(fs)) \o ExpectedComments(Tail(fs))

ExpectedSummaryText(n, owner, repo, prText) ==
  "Automated PR analysis found " \o ToString(n) \o " suggestion(s) for "
  \o Text(R(owner)) \o "/" \o Text(R(repo)) \o "#" \o prText \o "."

HeurReturned == server = "heur" /\ outcome.done /\ ~outcome.threw

\* dist/action.js has run its loop, for a pull request number that is one
InlineAnalysed ==
  /\ variant = "dist" /\ RequestsOf({"createComment"}) # {}
  /\ ~args.prNumber.nan /\ ~args.prNumber.neg /\ ~args.prNumber.fracnz
  /\ args.prNumber.ip > 0

NoRuleMatches(fs) == \A i \in 1..Len(fs) : \A k \in 1..4 : ~RuleTable(fs[i])[k].on

ConfigExample == <<File(PathConfig, "modified", Patch(<<Run("x", 1500)>>))>>

\* C9 for one analysis: of the files fs, with the comments cs and the summary
RulesAndSummary(fs, cs, summary, owner, repo, prText) ==
  /\ cs = ExpectedComments(fs)
  /\ Text(summary) = ExpectedSummaryText(Len(cs), owner, repo, prText)
  /\ NoRuleMatches(fs) =>
       /\ cs = <<>>
       /\ Text(summary) = ExpectedSummaryText(0, owner, repo, prText)
  /\ fs = ConfigExample =>
       /\ cs = <<Comment(PathConfig, ConfigBody)>>
       /\ Text(summary) = ExpectedSummaryText(1, owner, repo, prText)

\* part_001 keeps C9, and the spec's example gives the spec's summary
C9_HoldsInHeuristicServer ==
  HeurReturned =>
     /\ RulesAndSummary(files, outcome.comments, outcome.summary, call.owner, call.repo,
                        ToString(call.prNumber))
     /\ (files = ConfigExample /\ call.prNumber = 7) =>
          Text(outcome.summary)
            = "Automated PR analysis found 1 suggestion(s) for acme/widgets#7."

\* dist/action.js's loop and summary, held to C9
C9_HoldsInline ==
  InlineAnalysed =>
     \A q \in RequestsOf({"createComment"}) :
        RulesAndSummary(files, inlineComments, requests[q].body, args.owner, args.repo,
                        ToString(args.prNumber.ip))

\* C9: for every changed-file list the heuristic analysis gives exactly the
\* comments of the four rules applied to each file independently, in file
\* order, and the summary "Automated PR analysis found N suggestion(s) for
\* owner/repo#prNumber." with N the number of comments; no match gives no
\* comment and "0 suggestion(s)"; one modified "src/config/db.yaml" with a
\* 1500-character patch gives one configuration comment and N = 1.
C9_HeuristicRulesAndSummary ==
  /\ C9_HoldsInHeuristicServer
  /\ C9_HoldsInline

\* the test-deletion comments among cs that are for path
TestDeletionComments(cs, path) ==
  {j \in 1..Len(cs) : cs[j] = Comment(path, TestDeletedBody)}

\* C10 for one analysis: every listed file with status "removed" and "test"
\* in its path has its one test-deletion comment, and no other file has one
TestDeletionRule(fs, cs) ==
  \A i \in 1..Len(fs) :
     LET path == fs[i].filename
         removed == {k \in 1..Len(fs) : fs[k].filename = path /\ fs[k].status = "removed"}
     IN  Cardinality(TestDeletionComments(cs, path))
           = IF ContainsAnyCase(path, <<"t", "e", "s", "t">>) THEN Cardinality(removed) ELSE 0

\* part_001 keeps C10
C10_HoldsInHeuristicServer ==
  HeurReturned => TestDeletionRule(files, outcome.comments)

\* C10: a removed file whose path contains "test" in any letter case gets
\* exactly one test-deletion comment, whatever other rules fire for it; a file
\* with "test" in its path that is not removed gets none.
C10_TestDeletionRule ==
  /\ C10_HoldsInHeuristicServer
  /\ InlineAnalysed => TestDeletionRule(files, inlineComments)

(***************************************************************************)
(* The extraction of the comments from the response of the generative      *)
(* backend: mcp-server.ts from where it waits for generateContent, under   *)
(* responses of up to MaxLines lines.                                      *)
(***************************************************************************)
\* the lines the responses are made of
ResponseLines ==
  {<<"#", "#", "#", " ", "a", ".", "t", "s">>, <<"#", "#", " ", "b">>, <<"F", "i", "l", "e", ":", " ", "c">>,
   <<"F", "i", "l", "e", " ", "p", "a", "t", "h", ":", " ", "d">>, <<"f", "i", "x">>, <<>>}

RECURSIVE JoinLines(_)
\* lines.join("\n")
JoinLines(ls) ==
  IF ls = <<>> THEN <<>>
  ELSE IF Len(ls) = 1 THEN Head(ls)
  ELSE Head(ls) \o <<"\n">> \o JoinLines(Tail(ls))

\* result.response.text(): up to MaxLines lines
ResponseTexts == {JoinLines(ls) : ls \in SeqsUpTo(ResponseLines, MaxLines)}

\* generateContent settles with one of ResponseTexts, or with a throw
AiResponded == AiSettles(ResponseTexts)

\* the handler waits for generateContent, the list of files being empty
InitExtract ==
  /\ InvokerIdle
  /\ server = "ai"
  /\ call \in Calls
  /\ envKey = Undefined
  /\ Truthy(ApiKey(call, envKey))
  /\ files = <<>>
  /\ pr \in PullRequests
  /\ prContext = ContextHeader(pr, call.prNumber, 0)
  /\ spc = "await_gen" /\ idx = 1 /\ comments = <<>>
  /\ emitted = <<>> /\ aiAnalysis = <<>>
  /\ failed = "none" /\ thrown = NoError /\ outcome = NoOutcome

NextExtract == AiResponded

SpecExtract == InitExtract /\ [][NextExtract]_vars

\* where SpecExtract starts: a state SpecServer gets to
ExtractStart ==
  /\ server = "ai" /\ spc = "await_gen" /\ files = <<>> /\ idx = 1
  /\ prContext = ContextHeader(pr, call.prNumber, 0) /\ outcome = NoOutcome

(***************************************************************************)
(* Claims about the extraction, checked under SpecExtract.                 *)
(***************************************************************************)
RECURSIVE LinesOf(_)
\* the lines of a text
LinesOf(s) ==
  IF \A i \in 1..Len(s) : s[i] # "\n" THEN <<s>>
  ELSE <<SubSeq(s, 1, LineEnd(s, 0))>> \o LinesOf(SubSeq(s, LineEnd(s, 0) + 2, Len(s)))

HasPrefix(line, m) == Len(line) >= Len(m) /\ SubSeq(line, 1, Len(m)) = m

\* the three forms of heading the spec names
NamedMarkers ==
  {<<"#", "#", "#">>, <<"F", "i", "l", "e", ":">>,
   <<"F", "i", "l", "e", " ", "p", "a", "t", "h", ":">>}

\* with the two-hash heading, which the pattern of the code takes too
AllMarkers == NamedMarkers \cup {<<"#", "#">>}

IsHeading(line, markers) == \E m \in markers : HasPrefix(line, m)

\* what follows the longest marker the line starts with, trimmed
PathOf(line, markers) ==
  LET ms == {m \in markers : HasPrefix(line, m)}
      m == CHOOSE x \in ms : \A y \in ms : Len(y) <= Len(x)
  IN  TrimWs(SubSeq(line, Len(m) + 1, Len(line)))

\* the first heading after line i, Len(ls) + 1 without one
NextHeading(ls, i, markers) ==
  LET js == {j \in (i + 1)..Len(ls) : IsHeading(ls[j], markers)}
  IN  IF js = {} THEN Len(ls) + 1 ELSE CHOOSE j \in js : \A k \in js : j <= k

\* the body of the heading at line i: the text up to the next heading, trimmed
BodyOf(ls, i, markers) ==
  TrimWs(JoinLines(SubSeq(ls, i + 1, NextHeading(ls, i, markers) - 1)))

RECURSIVE RecordsFrom(_, _, _)
\* one record per heading from line i on whose path and body are not empty
RecordsFrom(ls, i, markers) ==
  IF i > Len(ls) THEN <<>>
  ELSE (IF /\ IsHeading(ls[i], markers)
           /\ PathOf(ls[i], markers) # <<>>
           /\ BodyOf(ls, i, markers) # <<>>
        THEN <<Comment(PathOf(ls[i], markers), R(BodyOf(ls, i, markers)))>>
        ELSE <<>>)
       \o RecordsFrom(ls, i + 1, markers)

ClaimedComments(text, markers) == RecordsFrom(LinesOf(text), 1, markers)

\* the generative backend has answered
Responded == server = "ai" /\ outcome.done /\ failed = "none"

\* two headings with nothing but white space between them
EmptyBodyBeforeHeading(text) ==
  LET ls == LinesOf(text)
  IN  \E i \in 1..Len(ls) :
         /\ IsHeading(ls[i], AllMarkers)
         /\ NextHeading(ls, i, AllMarkers) <= Len(ls)
         /\ BodyOf(ls, i, AllMarkers) = <<>>

\* the summary is the response, whole
C11_SummaryIsResponse ==
  Responded => ~outcome.threw /\ outcome.summary = R(aiAnalysis)

\* C11 read by its letter: only "### <path>", "File: <path>" and
\* "File path: <path>" are headings
C11_NamedHeadingsOnly ==
  Responded => outcome.comments = ClaimedComments(aiAnalysis, NamedMarkers)

\* C11: in the AI variant the summary is the full response text; the comment
\* list holds one {path, body} record per heading-like line ("### <path>",
\* "File: <path>", "File path: <path>"; "## <path>" is let count as one) whose
\* body, the text up to the next heading or the end of the text, is non-empty
\* after trimming, in order of appearance; without a heading the comment list
\* is empty.
C11_RecordPerHeading ==
  Responded =>
     /\ outcome.summary = R(aiAnalysis)
     /\ outcome.comments = ClaimedComments(aiAnalysis, AllMarkers)
     /\ (\A i \in 1..Len(LinesOf(aiAnalysis)) :
            ~IsHeading(LinesOf(aiAnalysis)[i], AllMarkers)) => outcome.comments = <<>>

\* C11 holds of the responses in which no heading has an empty body before
\* another heading
C11_HoldsWhenBodiesSeparateHeadings ==
  (Responded /\ ~EmptyBodyBeforeHeading(aiAnalysis)) => C11_RecordPerHeading

\* a heading without a body takes the next heading and its body as its own
C11_HeadingSwallowed ==
  /\ Responded
  /\ aiAnalysis = JoinLines(<<<<"#", "#", "#", " ", "a", ".", "t", "s">>,
                              <<"F", "i", "l", "e", ":", " ", "c">>,
                              <<"f", "i", "x">>>>)
  /\ outcome.comments
       = <<Comment(<<"a", ".", "t", "s">>,
                   R(<<"F", "i", "l", "e", ":", " ", "c", "\n", "f", "i", "x">>))>>

=============================================================================
